---- MODULE Spec2Model ----
(***************************************************************************)
(* Model of expand-images (src/src/expand-image.ts): expandImage and the   *)
(* CLI action that wraps it.  One run of the program is one behaviour: the *)
(* inputs (the options, the image stored at inputPath, how the program is  *)
(* entered) are fixed by Init, the answers of the environment (file        *)
(* access, metadata, the write) are chosen at the step that asks for them. *)
(*                                                                         *)
(* Pixels are symbolic.  The pixel of the source at column x, row y is the *)
(* record [x |-> x, y |-> y]; a canvas background pixel is the colour      *)
(* record the code passes to sharp ([r, g, b, alpha]).  extract, nearest   *)
(* resize and composite only move pixels, so a statement checked on the    *)
(* symbolic source holds for every pixel content.                          *)
(***************************************************************************)
EXTENDS Integers, Sequences, FiniteSets, TLC

VARIABLES mode, options, file, inputPath, pc, ops, env, metadata, geom,
          layers, expandedImage, written, err, exitCode, previous

vars == <<mode, options, file, inputPath, pc, ops, env, metadata, geom,
          layers, expandedImage, written, err, exitCode, previous>>

---------------------------------------------------------------------------
(* Bounds of the model. *)

MaxWidth == 11
MaxHeight == 3
MaxNum == 7
MaxPathLen == 5

(* Target ratios are rationals <<num, den>>, den in Dens; the numerators   *)
(* start at -1 to reach the non-positive ratios.                           *)
Dens == {1, 2}
Ratios == {<<n, d>> : n \in (-1)..MaxNum, d \in Dens}

(* An option the caller did not supply: a string option, the ratio. *)
Undefined == "undefined"
NoRatio == <<>>
NoPath == <<>>

---------------------------------------------------------------------------
(* Arithmetic of the code. *)

Min(a, b) == IF a <= b THEN a ELSE b

(* Math.round on the rational n/d, d > 0: nearest integer, ties towards    *)
(* +infinity.                                                              *)
MathRound(n, d) == (2 * n + d) \div (2 * d)

(* Math.floor on the rational n/d, d > 0. *)
MathFloor(n, d) == n \div d

(* const { targetRatio = 1.91, ... } = options *)
DefaultTargetRatio == <<191, 100>>
DefaultPaddingColor == "black"
DefaultPaddingStrategy == "solid"
DefaultSourceRatio == <<16, 1>>

TargetRatioOf(o) ==
  IF o.targetRatio = NoRatio THEN DefaultTargetRatio ELSE o.targetRatio
PaddingColorOf(o) ==
  IF o.paddingColor = Undefined THEN DefaultPaddingColor ELSE o.paddingColor
PaddingStrategyOf(o) ==
  IF o.paddingStrategy = Undefined THEN DefaultPaddingStrategy
  ELSE o.paddingStrategy

(* Variant: the product truncated instead of rounded. *)
NewWidthFloorBug(newHeight, ratio) == MathFloor(newHeight * ratio[1], ratio[2])
(* const newWidth = Math.round(newHeight * targetRatio) *)
NewWidth(newHeight, ratio) == MathRound(newHeight * ratio[1], ratio[2])

(* Variant: the half rounded up instead of down. *)
XOffsetCeilBug(newWidth, originalWidth) == (newWidth - originalWidth + 1) \div 2
(* const xOffset = Math.floor((newWidth - originalWidth) / 2) *)
XOffset(newWidth, originalWidth) == MathFloor(newWidth - originalWidth, 2)

(* const edgeWidth = Math.min(20, Math.floor(originalWidth * 0.1)) *)
EdgeSampleMax == 20
EdgeWidth(originalWidth) == Min(EdgeSampleMax, MathFloor(originalWidth, 10))

(* paddingColor === 'white' ? {255,255,255,1} : {0,0,0,1} *)
White == [r |-> 255, g |-> 255, b |-> 255, alpha |-> 1]
Black == [r |-> 0, g |-> 0, b |-> 0, alpha |-> 1]
Transparent == [r |-> 0, g |-> 0, b |-> 0, alpha |-> 0]
(* Variant: the color option ignored. *)
BackgroundColorAlwaysBlack(paddingColor) == Black
BackgroundColor(paddingColor) == IF paddingColor = "white" THEN White ELSE Black

---------------------------------------------------------------------------
(* Images: a sequence of rows, each a sequence of pixels. *)

SrcPixel(x, y) == [x |-> x, y |-> y]
SourceImage(w, h) == [y \in 1..h |-> [x \in 1..w |-> SrcPixel(x - 1, y - 1)]]
ImgHeight(img) == Len(img)
ImgWidth(img) == IF Len(img) = 0 THEN 0 ELSE Len(img[1])

(* The image codec (sharp), as the code uses it. *)
ExtractOk(img, left, width) ==
  left >= 0 /\ width >= 1 /\ left + width <= ImgWidth(img)
Extract(img, left, width) ==
  [y \in 1..ImgHeight(img) |-> SubSeq(img[y], left + 1, left + width)]

ResizeOk(width, height) == width >= 1 /\ height >= 1
(* kernel: 'nearest': output column i shows input column floor(i*w/width) *)
ResizeNearest(img, width) ==
  LET iw == ImgWidth(img)
  IN  [y \in 1..ImgHeight(img) |->
         [i \in 1..width |-> img[y][((i - 1) * iw) \div width + 1]]]

(* blur() then resize(fit: 'fill'): a smooth resample; the value of a      *)
(* pixel is left symbolic, tagged with the strip row it was sampled from.  *)
BlurFill(img, width) ==
  [y \in 1..ImgHeight(img) |-> [i \in 1..width |-> [blurOf |-> img[y]]]]

CreateOk(width, height) == width >= 1 /\ height >= 1
(* create: {width, height, channels, background}: a canvas of 3 channels   *)
(* has no alpha channel, its pixels are opaque.                            *)
CreateCanvas(width, height, channels, background) ==
  LET pixel == IF channels = 3 THEN [background EXCEPT !.alpha = 1]
               ELSE background
  IN  [y \in 1..height |-> [x \in 1..width |-> pixel]]

(* A composite entry: {input, top: 0, left}. *)
Layer(name, input, left) == [name |-> name, input |-> input, left |-> left]
LayerFits(base, l) ==
  ImgWidth(l.input) <= ImgWidth(base) /\ ImgHeight(l.input) <= ImgHeight(base)
CompositeOk(base, ls) == \A i \in 1..Len(ls) : LayerFits(base, ls[i])

(* Entry l of a composite list covers canvas position (x, y), 1-based. *)
Covers(l, x, y) ==
  /\ y <= ImgHeight(l.input)
  /\ x - 1 >= l.left
  /\ x - 1 < l.left + ImgWidth(l.input)

(* composite(ls): the entries are drawn in list order, a later one over an *)
(* earlier one: a position shows the last entry that covers it, or the     *)
(* base.                                                                   *)
Composite(base, ls) ==
  [y \in 1..ImgHeight(base) |->
     [x \in 1..ImgWidth(base) |->
        LET covering == {i \in 1..Len(ls) : Covers(ls[i], x, y)}
        IN  IF covering = {} THEN base[y][x]
            ELSE LET top == CHOOSE i \in covering : \A j \in covering : j <= i
                 IN  ls[top].input[y][x - ls[top].left]]]

---------------------------------------------------------------------------
(* The calls the program issues, in order.  A chain is one sharp pipeline  *)
(* (constructor, operations, toBuffer): the calls it issues and whether it *)
(* resolves.  A rejected chain throws out of expandImage, so the chains    *)
(* after it issue nothing.                                                 *)

Op(name, a, b) == [op |-> name, a |-> a, b |-> b]
Chain(chainOps, ok) == [ops |-> chainOps, ok |-> ok]

RECURSIVE Issued(_)
Issued(chains) ==
  IF Len(chains) = 0 THEN <<>>
  ELSE Head(chains).ops \o (IF Head(chains).ok THEN Issued(Tail(chains)) ELSE <<>>)

AllOk(chains) == \A i \in 1..Len(chains) : chains[i].ok

(* image.png().toBuffer() *)
PngChain == Chain(<<Op("png", 0, 0)>>, TRUE)

(* sharp({create}).composite(ls).png().toBuffer() *)
CanvasChain(width, height, channels, background, ls) ==
  LET base == CreateCanvas(width, height, channels, background)
  IN  IF CreateOk(width, height)
      THEN Chain(<<Op("create", width, height),
                   Op("composite", Len(ls), 0),
                   Op("png", 0, 0)>>,
                 CompositeOk(base, ls))
      ELSE Chain(<<Op("create", width, height)>>, FALSE)

(* A strategy's outcome: the chains it runs, the composite list (empty     *)
(* when a strip it needs was never produced) and the canvas it composites  *)
(* onto.                                                                   *)
Outcome(chains, ls, base) == [chains |-> chains, layers |-> ls, base |-> base]

(* lines 73-114 *)
EdgeExtendLayers(src, g) ==
  LET leftEdge == ResizeNearest(Extract(src, 0, 1), g.paddingWidth)
      rightEdge == ResizeNearest(Extract(src, ImgWidth(src) - 1, 1), g.paddingWidth)
  IN  << Layer("leftEdge", leftEdge, 0),
         Layer("inputBuffer", src, g.paddingWidth),
         Layer("rightEdge", rightEdge, g.paddingWidth + ImgWidth(src)) >>

EdgeExtendStrategy(src, g, channels) ==
  LET w == ImgWidth(src)
      h == ImgHeight(src)
      p == g.paddingWidth
      extendChain ==
        IF p >= 0 THEN Chain(<<Op("extend", p, p), Op("png", 0, 0)>>, TRUE)
        ELSE Chain(<<Op("extend", p, p)>>, FALSE)
      leftChain ==
        Chain(<<Op("extract", 1, 0), Op("resize", p, h)>>,
              ExtractOk(src, 0, 1) /\ ResizeOk(p, h))
      rightChain ==
        Chain(<<Op("extract", 1, w - 1), Op("resize", p, h)>>,
              ExtractOk(src, w - 1, 1) /\ ResizeOk(p, h))
      ls == IF extendChain.ok /\ leftChain.ok /\ rightChain.ok
            THEN EdgeExtendLayers(src, g) ELSE <<>>
  IN  Outcome(<<extendChain, PngChain, leftChain, rightChain,
                CanvasChain(g.newWidth, g.newHeight, channels, Transparent, ls)>>,
              ls, CreateCanvas(g.newWidth, g.newHeight, channels, Transparent))

(* lines 116-156 *)
BlurLayers(src, g) ==
  LET w == ImgWidth(src)
      edgeWidth == EdgeWidth(w)
      leftEdge == BlurFill(Extract(src, 0, edgeWidth), g.paddingWidth)
      rightEdge == BlurFill(Extract(src, w - edgeWidth, edgeWidth), g.paddingWidth)
  IN  << Layer("leftEdge", leftEdge, 0),
         Layer("inputBuffer", src, g.paddingWidth),
         Layer("rightEdge", rightEdge, g.paddingWidth + w) >>

BlurStrategy(src, g, channels) ==
  LET w == ImgWidth(src)
      h == ImgHeight(src)
      p == g.paddingWidth
      edgeWidth == EdgeWidth(w)
      leftChain ==
        Chain(<<Op("extract", edgeWidth, 0), Op("blur", 0, 0), Op("resize", p, h)>>,
              ExtractOk(src, 0, edgeWidth) /\ ResizeOk(p, h))
      rightChain ==
        Chain(<<Op("extract", edgeWidth, w - edgeWidth), Op("blur", 0, 0),
                Op("resize", p, h)>>,
              ExtractOk(src, w - edgeWidth, edgeWidth) /\ ResizeOk(p, h))
      ls == IF leftChain.ok /\ rightChain.ok THEN BlurLayers(src, g) ELSE <<>>
  IN  Outcome(<<PngChain, leftChain, rightChain,
                CanvasChain(g.newWidth, g.newHeight, channels, Transparent, ls)>>,
              ls, CreateCanvas(g.newWidth, g.newHeight, channels, Transparent))

(* Variant: the source composited at the left border. *)
SolidLayersAtZero(src, g) == << Layer("inputBuffer", src, 0) >>
(* lines 158-183 *)
SolidLayers(src, g) == << Layer("inputBuffer", src, g.xOffset) >>

SolidStrategy(src, g, channels, paddingColor) ==
  LET backgroundColor == BackgroundColor(paddingColor)
      ls == SolidLayers(src, g)
  IN  Outcome(<<PngChain,
                CanvasChain(g.newWidth, g.newHeight, channels, backgroundColor, ls)>>,
              ls, CreateCanvas(g.newWidth, g.newHeight, channels, backgroundColor))

---------------------------------------------------------------------------
(* Node's path module (posix), as expandImage uses it at lines 187-191.    *)
(* Indices are the 0-based indices of the library; Slice is                *)
(* String.prototype.slice(from, to).                                       *)

Slice(p, from, to) == SubSeq(p, from + 1, to)

Max(S) == CHOOSE m \in S : \A k \in S : k <= m

(* path.parse(p): root, dir, base, name and ext of p. *)
PathParse(p) ==
  LET isAbsolute == Len(p) > 0 /\ p[1] = "/"
      start == IF isAbsolute THEN 1 ELSE 0
      (* end: one past the last character that is not a separator *)
      named == {i \in start..(Len(p) - 1) : p[i + 1] # "/"}
      end == IF named = {} THEN -1 ELSE Max(named) + 1
      (* startPart: one past the last separator before the base *)
      seps == {i \in start..(end - 1) : p[i + 1] = "/"}
      startPart == IF seps = {} THEN 0 ELSE Max(seps) + 1
      baseStart == IF startPart = 0 /\ isAbsolute THEN 1 ELSE startPart
      dots == {i \in baseStart..(end - 1) : p[i + 1] = "."}
      startDot == IF dots = {} THEN -1 ELSE Max(dots)
      preDotState == IF startDot = -1 \/ startDot = baseStart THEN 0
                     ELSE IF p[baseStart + 1] = "." THEN 1 ELSE -1
      noExt == \/ startDot = -1
               \/ preDotState = 0
               \/ preDotState = 1 /\ startDot = end - 1 /\ startDot = startPart + 1
      base == IF end = -1 THEN <<>> ELSE Slice(p, baseStart, end)
      dir == IF startPart > 0 THEN Slice(p, 0, startPart - 1)
             ELSE IF isAbsolute THEN <<"/">> ELSE <<>>
  IN  [root |-> IF isAbsolute THEN <<"/">> ELSE <<>>,
       dir |-> dir,
       base |-> base,
       name |-> IF end = -1 \/ noExt THEN base ELSE Slice(p, baseStart, startDot),
       ext |-> IF end = -1 \/ noExt THEN <<>> ELSE Slice(p, startDot, end)]

(* The components of p between its separators. *)
RECURSIVE Split(_)
Split(p) ==
  IF p = <<>> THEN << <<>> >>
  ELSE IF Head(p) = "/" THEN << <<>> >> \o Split(Tail(p))
  ELSE LET rest == Split(Tail(p))
       IN  << <<Head(p)>> \o Head(rest) >> \o Tail(rest)

(* normalizeString: empty and "." components dropped, ".." takes the       *)
(* component before it, or stays when there is none and the path is        *)
(* relative.                                                               *)
RECURSIVE Resolve(_, _, _)
Resolve(segments, kept, allowAboveRoot) ==
  IF segments = <<>> THEN kept
  ELSE LET segment == Head(segments)
           up == <<".", ".">>
           kept2 ==
             IF segment = <<>> \/ segment = <<".">> THEN kept
             ELSE IF segment = up
             THEN IF kept # <<>> /\ kept[Len(kept)] # up
                  THEN SubSeq(kept, 1, Len(kept) - 1)
                  ELSE IF allowAboveRoot THEN Append(kept, up) ELSE kept
             ELSE Append(kept, segment)
       IN  Resolve(Tail(segments), kept2, allowAboveRoot)

RECURSIVE Unsplit(_)
Unsplit(segments) ==
  IF segments = <<>> THEN <<>>
  ELSE IF Len(segments) = 1 THEN Head(segments)
  ELSE Head(segments) \o <<"/">> \o Unsplit(Tail(segments))

(* path.normalize(p) *)
PathNormalize(p) ==
  IF p = <<>> THEN <<".">>
  ELSE LET isAbsolute == p[1] = "/"
           trailingSeparator == p[Len(p)] = "/"
           path == Unsplit(Resolve(Split(p), <<>>, ~isAbsolute))
       IN  IF path = <<>>
           THEN IF isAbsolute THEN <<"/">>
                ELSE IF trailingSeparator THEN <<".", "/">> ELSE <<".">>
           ELSE (IF isAbsolute THEN <<"/">> ELSE <<>>) \o path
                \o (IF trailingSeparator THEN <<"/">> ELSE <<>>)

(* path.join(a, b): the non-empty arguments joined by "/", normalized. *)
PathJoin(a, b) ==
  LET joined == IF a = <<>> THEN b
                ELSE IF b = <<>> THEN a
                ELSE a \o <<"/">> \o b
  IN  IF joined = <<>> THEN <<".">> ELSE PathNormalize(joined)

---------------------------------------------------------------------------
(* State. *)

Strategies == {"solid", "blur", "edge-extend"}
Colors == {"black", "white"}

(* What a caller can pass: the legal values, one illegal value of each     *)
(* option, and the option left out.                                        *)
StrategyInputs == Strategies \cup {"mirror", Undefined}
ColorInputs == Colors \cup {"red", Undefined}
RatioInputs == Ratios \cup {NoRatio}
SourceRatioInputs == {NoRatio, DefaultSourceRatio, <<2, 1>>}

(* A path is the sequence of its characters; "_expanded" is kept as one    *)
(* token.  An output path given by the caller is used as it is, so one     *)
(* that is not in normal form is among the inputs.                         *)
PathChars == {"/", ".", "a", "_expanded"}
Paths == UNION {[1..n -> PathChars] : n \in 1..MaxPathLen}
OutputInputs == {NoPath, <<"o", "/", "/", "w">>}
SamplePath == <<"a", "/", "a", ".", "a">>

(* The paths that can name an image file: the last component is not empty  *)
(* (no trailing slash) and is neither "." nor "..".                        *)
IsFilePath(p) ==
  /\ p # <<>>
  /\ p[Len(p)] # "/"
  /\ PathParse(p).base \notin {<<".">>, <<".", ".">>}
InputPaths == {p \in Paths : IsFilePath(p)}

NoMetadata == [width |-> 0, height |-> 0, hasAlpha |-> FALSE]
NoGeometry == [newWidth |-> 0, newHeight |-> 0, xOffset |-> 0, paddingWidth |-> 0]

(* The composite list as the state keeps it: each entry's name, offset and *)
(* width.                                                                  *)
LayerShape(l) == [name |-> l.name, left |-> l.left, width |-> ImgWidth(l.input)]
LayerShapes(ls) == [i \in 1..Len(ls) |-> LayerShape(ls[i])]

NoPrevious == <<>>

(* A run starts at the CLI action or at expandImage, nothing done yet. *)
Entry(m) == IF m = "cli" THEN "cli" ELSE "access"

InitWith(paths, optionInputs, files) ==
  /\ mode \in {"cli", "direct"}
  /\ options \in optionInputs
  /\ file \in files
  /\ inputPath \in paths
  /\ pc = Entry(mode)
  /\ ops = <<>>
  /\ env = <<>>
  /\ previous = NoPrevious
  /\ metadata = NoMetadata
  /\ geom = NoGeometry
  /\ layers = <<>>
  /\ expandedImage = <<>>
  /\ written = NoPath
  /\ err = "none"
  /\ exitCode = <<>>

Init ==
  InitWith({SamplePath},
           [targetRatio : RatioInputs, paddingColor : ColorInputs,
            paddingStrategy : StrategyInputs, output : OutputInputs,
            sourceRatio : {NoRatio}],
           [width : 1..MaxWidth, height : 1..MaxHeight])

---------------------------------------------------------------------------
(* The CLI action, lines 233-261. *)

(* commander's defaults (lines 208-232) stand in for a flag not given;     *)
(* parseFloat of the ratio string is the rational it denotes.              *)
CliOptions(o) ==
  [targetRatio |-> TargetRatioOf(o),
   paddingColor |-> IF o.paddingColor = Undefined THEN "black" ELSE o.paddingColor,
   paddingStrategy |-> IF o.paddingStrategy = Undefined THEN "solid"
                       ELSE o.paddingStrategy,
   output |-> o.output,
   sourceRatio |-> IF o.sourceRatio = NoRatio THEN DefaultSourceRatio
                   ELSE o.sourceRatio]

(* Variant: the strategy check left out. *)
CliCheckSkipsStrategy(o) ==
  IF o.paddingColor \notin Colors THEN "InvalidColor" ELSE "none"
(* lines 235-246: the two checks before expandImage is called *)
CliCheck(o) ==
  IF o.paddingColor \notin Colors THEN "InvalidColor"
  ELSE IF o.paddingStrategy \notin Strategies THEN "InvalidStrategy"
  ELSE "none"

(* process.exit(code) *)
Exit(code) == /\ exitCode' = Append(exitCode, code)
              /\ pc' = "exited"

CliAction ==
  /\ pc = "cli"
  /\ LET o == CliOptions(options)
         bad == CliCheck(o)
     IN  IF bad # "none"
         THEN /\ err' = bad
              /\ Exit(1)
              /\ UNCHANGED options
         ELSE /\ options' = o
              /\ pc' = "access"
              /\ UNCHANGED <<err, exitCode>>
  /\ UNCHANGED <<inputPath, previous, mode, file, ops, env, metadata, geom, layers,
                 expandedImage, written>>

(* line 256: expandImage resolved *)
CliExit ==
  /\ mode = "cli"
  /\ pc = "returned"
  /\ Exit(0)
  /\ UNCHANGED <<inputPath, previous, mode, options, file, ops, env, metadata,
                 geom, layers, expandedImage, written, err>>

(* lines 257-260: expandImage rejected *)
CliCatch ==
  /\ mode = "cli"
  /\ pc = "thrown"
  /\ Exit(1)
  /\ UNCHANGED <<inputPath, previous, mode, options, file, ops, env, metadata,
                 geom, layers, expandedImage, written, err>>

---------------------------------------------------------------------------
(* expandImage, lines 24-199. *)

(* throw: the run leaves expandImage with the error *)
Throw(e) == /\ err' = e
            /\ pc' = "thrown"

(* lines 37-42: fs.access(inputPath) *)
Access ==
  /\ pc = "access"
  /\ ops' = Append(ops, Op("access", 0, 0))
  /\ \E exists \in BOOLEAN :
       /\ env' = Append(env, IF exists THEN "exists" ELSE "missing")
       /\ IF exists THEN pc' = "metadata" /\ UNCHANGED err
          ELSE Throw("InputNotFound")
  /\ UNCHANGED <<inputPath, previous, mode, options, file, metadata, geom,
                 layers, expandedImage, written, exitCode>>

(* Variant: an image whose ratio is not sourceRatio refused. *)
DimensionsMissingOrOffRatio(md) ==
  \/ md.width = 0
  \/ md.height = 0
  \/ /\ options.sourceRatio # NoRatio
     /\ md.width * options.sourceRatio[2] # md.height * options.sourceRatio[1]
(* line 48: !metadata.width || !metadata.height *)
DimensionsMissing(md) == md.width = 0 \/ md.height = 0

(* lines 44-50: sharp(inputPath).metadata() and the dimension check *)
Metadata ==
  /\ pc = "metadata"
  /\ ops' = Append(ops, Op("metadata", 0, 0))
  /\ \E answer \in {"dims", "nodims", "reject"}, hasAlpha \in BOOLEAN :
       LET md == IF answer = "dims"
                 THEN [width |-> file.width, height |-> file.height,
                       hasAlpha |-> hasAlpha]
                 ELSE NoMetadata
       IN  /\ env' = Append(env, IF hasAlpha THEN "alpha" ELSE answer)
           /\ answer # "dims" => hasAlpha = FALSE
           /\ IF answer = "reject"
              THEN metadata' = NoMetadata /\ Throw("CodecError")
              ELSE IF DimensionsMissing(md)
              THEN metadata' = NoMetadata /\ Throw("UnreadableDimensions")
              ELSE /\ metadata' = md
                   /\ pc' = "geometry"
                   /\ UNCHANGED err
  /\ UNCHANGED <<inputPath, previous, mode, options, file, geom, layers,
                 expandedImage, written, exitCode>>

(* Variant: the width scaled by the ratio, not the height. *)
ComputeGeometryFromWidth(originalWidth, originalHeight, targetRatio) ==
  LET newHeight == originalHeight
      newWidth == NewWidth(originalWidth, targetRatio)
      xOffset == XOffset(newWidth, originalWidth)
  IN  [newWidth |-> newWidth, newHeight |-> newHeight,
       xOffset |-> xOffset, paddingWidth |-> xOffset]
(* lines 52-69 *)
ComputeGeometry(originalWidth, originalHeight, targetRatio) ==
  LET newHeight == originalHeight
      newWidth == NewWidth(newHeight, targetRatio)
      xOffset == XOffset(newWidth, originalWidth)
  IN  [newWidth |-> newWidth, newHeight |-> newHeight,
       xOffset |-> xOffset, paddingWidth |-> xOffset]

Geometry ==
  /\ pc = "geometry"
  /\ geom' = ComputeGeometry(metadata.width, metadata.height, TargetRatioOf(options))
  /\ pc' = "strategy"
  /\ UNCHANGED <<inputPath, previous, mode, options, file, ops, env, metadata,
                 layers, expandedImage, written, err, exitCode>>

(* channels: metadata.hasAlpha ? 4 : 3 *)
Channels(md) == IF md.hasAlpha THEN 4 ELSE 3

(* Variant: a rejection swallowed. *)
AfterStrategyIgnoringErrors(ok) == "save"
(* The strategy's chains run in order; the first rejection throws. *)
AfterStrategy(ok) == IF ok THEN "save" ELSE "thrown"

RunStrategy(outcome) ==
  LET ok == AllOk(outcome.chains)
  IN  /\ ops' = ops \o Issued(outcome.chains)
      /\ layers' = IF \E i \in 1..Len(Issued(outcome.chains)) :
                          Issued(outcome.chains)[i].op = "composite"
                   THEN LayerShapes(outcome.layers) ELSE <<>>
      /\ expandedImage' = IF ok THEN Composite(outcome.base, outcome.layers)
                          ELSE <<>>
      /\ pc' = AfterStrategy(ok)
      /\ err' = IF ok THEN err ELSE "CodecError"
      /\ UNCHANGED <<inputPath, previous, mode, options, file, env, metadata, geom,
                     written, exitCode>>

EdgeExtend ==
  /\ pc = "strategy"
  /\ PaddingStrategyOf(options) = "edge-extend"
  /\ RunStrategy(EdgeExtendStrategy(SourceImage(metadata.width, metadata.height), geom,
                                    Channels(metadata)))

Blur ==
  /\ pc = "strategy"
  /\ PaddingStrategyOf(options) = "blur"
  /\ RunStrategy(BlurStrategy(SourceImage(metadata.width, metadata.height), geom,
                              Channels(metadata)))

Solid ==
  /\ pc = "strategy"
  /\ PaddingStrategyOf(options) \notin {"edge-extend", "blur"}
  /\ RunStrategy(SolidStrategy(SourceImage(metadata.width, metadata.height), geom,
                               Channels(metadata), PaddingColorOf(options)))

(* Variant: the default output lands in the working directory. *)
DefaultOutputPathNoDir(parsedPath) ==
  PathJoin(<<>>, parsedPath.name \o <<"_expanded">> \o parsedPath.ext)
(* lines 188-191: path.join(parsedPath.dir,                                *)
(*                          `${parsedPath.name}_expanded${parsedPath.ext}`) *)
DefaultOutputPath(parsedPath) ==
  PathJoin(parsedPath.dir, parsedPath.name \o <<"_expanded">> \o parsedPath.ext)

(* lines 185-192: !outputPath holds for undefined and for the empty string *)
OutputPath(given, parsedPath) ==
  IF given = NoPath THEN DefaultOutputPath(parsedPath) ELSE given

(* lines 185-198: sharp(expandedImage).toFile(outputPath) *)
Save ==
  /\ pc = "save"
  /\ ops' = Append(ops, Op("toFile", 0, 0))
  /\ \E saved \in BOOLEAN :
       /\ env' = Append(env, IF saved THEN "saved" ELSE "failed")
       /\ IF saved
          THEN /\ written' = OutputPath(options.output, PathParse(inputPath))
               /\ pc' = "returned"
               /\ UNCHANGED err
          ELSE /\ Throw("CodecError")
               /\ UNCHANGED written
  /\ UNCHANGED <<inputPath, previous, mode, options, file, metadata, geom,
                 layers, expandedImage, exitCode>>

Next ==
  \/ CliAction
  \/ CliExit
  \/ CliCatch
  \/ Access
  \/ Metadata
  \/ Geometry
  \/ EdgeExtend
  \/ Blur
  \/ Solid
  \/ Save

Spec == Init /\ [][Next]_vars

(* The runs over every input path, on one small image. *)
PathRatio == <<4, 1>>
PathInit ==
  InitWith(InputPaths,
           [targetRatio : {PathRatio}, paddingColor : {Undefined},
            paddingStrategy : Strategies, output : OutputInputs,
            sourceRatio : {NoRatio}],
           [width : {1}, height : {1}])

PathSpec == PathInit /\ [][Next]_vars

---------------------------------------------------------------------------
(* A caller that calls expandImage a second time. *)

(* What a finished call leaves behind. *)
RunRecord ==
  [file |-> file, options |-> options, inputPath |-> inputPath, env |-> env,
   ops |-> ops, geom |-> geom, expandedImage |-> expandedImage,
   written |-> written, err |-> err, exitCode |-> exitCode]

(* The call is over: expandImage returned or threw, the CLI exited. *)
Finished ==
  IF mode = "cli" THEN pc = "exited" ELSE pc \in {"returned", "thrown"}

(* The next call starts with nothing done. *)
Restart ==
  /\ pc' = Entry(mode)
  /\ ops' = <<>>
  /\ env' = <<>>
  /\ metadata' = NoMetadata
  /\ geom' = NoGeometry
  /\ layers' = <<>>
  /\ expandedImage' = <<>>
  /\ written' = NoPath
  /\ err' = "none"
  /\ exitCode' = <<>>

(* expandImage(outputOfTheFirstCall, outputPath, options): the file the    *)
(* first call wrote (line 194) is the input of the second, the options     *)
(* are the same.  The pixels of the new source are again symbolic.         *)
Again ==
  /\ mode = "direct"
  /\ pc = "returned"
  /\ previous = NoPrevious
  /\ previous' = RunRecord
  /\ inputPath' = written
  /\ file' = [width |-> ImgWidth(expandedImage),
              height |-> ImgHeight(expandedImage)]
  /\ Restart
  /\ UNCHANGED <<mode, options>>

TwiceNext == Next \/ Again

TwiceSpec == Init /\ [][TwiceNext]_vars

(* The same call made again with another sourceRatio, everything else      *)
(* (the image, the paths, the other options) as before.                    *)
Replay ==
  /\ Finished
  /\ previous = NoPrevious
  /\ previous' = RunRecord
  /\ \E sourceRatio \in SourceRatioInputs \ {options.sourceRatio} :
       options' = [options EXCEPT !.sourceRatio = sourceRatio]
  /\ Restart
  /\ UNCHANGED <<mode, file, inputPath>>

PairRatios == {NoRatio, <<0, 1>>, <<4, 1>>}
PairColors == {Undefined, "white", "red"}
PairInit ==
  InitWith({SamplePath},
           [targetRatio : PairRatios, paddingColor : PairColors,
            paddingStrategy : StrategyInputs, output : OutputInputs,
            sourceRatio : SourceRatioInputs],
           [width : 1..MaxWidth, height : 1..MaxHeight])

PairNext == Next \/ Replay

PairSpec == PairInit /\ [][PairNext]_vars

---------------------------------------------------------------------------
(* What the properties below read off a run. *)

(* The geometry step (lines 52-69) has run. *)
GeometryComputed == geom # NoGeometry

(* The strategy's last chain resolved: expandedImage holds the composite. *)
Composited == expandedImage # <<>>

(* The branch of lines 73-183 the run takes. *)
Branch ==
  IF PaddingStrategyOf(options) \in {"edge-extend", "blur"}
  THEN PaddingStrategyOf(options) ELSE "solid"

HasOp(name) == \E i \in 1..Len(ops) : ops[i].op = name

(* k is n/d rounded to the nearest integer, ties up (d > 0). *)
IsRoundHalfUp(k, n, d) == d * (2 * k - 1) <= 2 * n /\ 2 * n < d * (2 * k + 1)

(* k is floor(n / 2). *)
IsHalfFloor(k, n) == 2 * k <= n /\ n < 2 * k + 2

RatioPositive(ratio) == ratio[1] > 0

---------------------------------------------------------------------------
(* C1: for a source of positive width and height and a positive target     *)
(* ratio, the geometry has newHeight = originalHeight and newWidth =       *)
(* round(originalHeight * targetRatio), ties rounded up, and every canvas  *)
(* the run creates, under any of the three strategies, has that size.      *)
C1_CanvasSize ==
  LET ratio == TargetRatioOf(options)
  IN  (GeometryComputed /\ RatioPositive(ratio)) =>
        /\ geom.newHeight = file.height
        /\ IsRoundHalfUp(geom.newWidth, file.height * ratio[1], ratio[2])
        /\ \A i \in 1..Len(ops) :
             ops[i].op = "create" =>
               ops[i].a = geom.newWidth /\ ops[i].b = geom.newHeight
        /\ Composited =>
             /\ ImgWidth(expandedImage) = geom.newWidth
             /\ ImgHeight(expandedImage) = file.height

(* A canvas was created for a ratio whose product with the height is a     *)
(* tie (x.5), in the edge-extend strategy.                                 *)
C1_Witness ==
  LET ratio == TargetRatioOf(options)
  IN  /\ Composited
      /\ Branch = "edge-extend"
      /\ ratio[2] = 2
      /\ (file.height * ratio[1]) % 2 = 1
      /\ HasOp("create")

---------------------------------------------------------------------------
---------------------------------------------------------------------------
(* The layer of the composite list with the given name; the columns of the *)
(* output that show a pixel of the base canvas.                            *)
LayerNamed(name) == CHOOSE l \in {layers[i] : i \in 1..Len(layers)} : l.name = name

IsBasePixel(p) == p \in {Transparent, Black, White}

ExposedColumns ==
  {x \in 1..ImgWidth(expandedImage) :
     \E y \in 1..ImgHeight(expandedImage) : IsBasePixel(expandedImage[y][x])}

(* C3: in the edge-extend and blur strategies with newWidth >=             *)
(* originalWidth, the widths of the left strip, the source and the right   *)
(* strip add up to newWidth, and no column of the output shows the base    *)
(* canvas.                                                                 *)
C3_StripsTileCanvas ==
  (Composited /\ Branch \in {"edge-extend", "blur"}
     /\ geom.newWidth >= file.width) =>
    /\ LayerNamed("leftEdge").width + file.width + LayerNamed("rightEdge").width
         = geom.newWidth
    /\ ExposedColumns = {}

(* C4: in the edge-extend strategy with newWidth >= originalWidth, every   *)
(* output pixel left of the source equals the source's column-0 pixel of   *)
(* its row, and every output pixel right of the source equals the source's *)
(* last-column pixel of its row.                                           *)
C4_EdgeColumnsReplicated ==
  LET w == file.width
      nw == geom.newWidth
      left == (nw - w) \div 2
  IN  (Composited /\ Branch = "edge-extend" /\ nw >= w) =>
        \A y \in 0..(file.height - 1) :
          /\ \A x \in 0..(left - 1) :
               expandedImage[y + 1][x + 1] = SrcPixel(0, y)
          /\ \A x \in (left + w)..(nw - 1) :
               expandedImage[y + 1][x + 1] = SrcPixel(w - 1, y)

(* C5: in the solid strategy with newWidth >= originalWidth, every output  *)
(* pixel outside the source columns is opaque white when paddingColor is   *)
(* 'white' and opaque black when it is 'black' or omitted; the left margin *)
(* has floor(totalPadding / 2) columns and the right margin the rest.      *)
C5_SolidMargins ==
  LET w == file.width
      nw == geom.newWidth
      color == options.paddingColor
      expected == IF color = "white"
                  THEN [r |-> 255, g |-> 255, b |-> 255, alpha |-> 1]
                  ELSE [r |-> 0, g |-> 0, b |-> 0, alpha |-> 1]
      margin == {x \in 1..ImgWidth(expandedImage) :
                   \A y \in 1..ImgHeight(expandedImage) :
                     expandedImage[y][x] = expected}
      source == {x \in 1..ImgWidth(expandedImage) :
                   \A y \in 1..ImgHeight(expandedImage) :
                     \E sx \in 0..(w - 1) : expandedImage[y][x] = SrcPixel(sx, y - 1)}
  IN  (Composited /\ Branch = "solid" /\ nw >= w
         /\ color \in {"white", "black", Undefined}) =>
        \E left \in 0..nw :
          /\ IsHalfFloor(left, nw - w)
          /\ margin = (1..left) \cup ((left + w + 1)..nw)
          /\ source = (left + 1)..(left + w)
          /\ Cardinality({x \in margin : x > left}) = (nw - w) - left

(* A solid run with white padding and an odd total padding succeeded. *)
C5_Witness ==
  /\ Composited
  /\ Branch = "solid"
  /\ options.paddingColor = "white"
  /\ (geom.newWidth - file.width) % 2 = 1
  /\ geom.newWidth - file.width >= 3

---------------------------------------------------------------------------
(* The calls that touch a pixel buffer or the output file. *)
BufferOps == {"png", "extend", "extract", "resize", "blur", "create",
              "composite", "toFile"}

(* The run left the strategy step, or the whole program. *)
PastStrategy == pc \in {"save", "returned", "thrown", "exited"}

(* C7: when the target ratio is non-positive or newWidth < originalWidth,  *)
(* the run ends in an InvalidGeometry error and has issued no buffer       *)
(* operation (png conversion, extract, resize, blur, canvas creation,      *)
(* composite, file write).                                                 *)
C7_InvalidGeometryRejected ==
  (/\ GeometryComputed
   /\ PastStrategy
   /\ \/ ~RatioPositive(TargetRatioOf(options))
      \/ geom.newWidth < file.width) =>
    /\ err = "InvalidGeometry"
    /\ \A i \in 1..Len(ops) : ops[i].op \notin BufferOps

(* The option values the program documents. *)
ColorValid(o) == o.paddingColor \in {"black", "white", Undefined}
StrategyValid(o) == o.paddingStrategy \in {"solid", "blur", "edge-extend", Undefined}

(* C8: a run, through the CLI or through expandImage, whose color is not   *)
(* black or white or whose strategy is not solid, blur or edge-extend ends *)
(* in an invalid-option error and issues no I/O at all.                    *)
C8_InvalidOptionNoIO ==
  (~ColorValid(options) \/ ~StrategyValid(options)) =>
    /\ ops = <<>>
    /\ pc \in {"returned", "thrown", "exited"} =>
         err \in {"InvalidColor", "InvalidStrategy"}

(* C9: a write to outputPath is the last call of the run and comes after   *)
(* the access check, the metadata read and the strategy's composite have   *)
(* succeeded; a run that ended in an error of one of those steps has       *)
(* issued no write.                                                        *)
C9_WriteLast ==
  /\ \A i \in 1..Len(ops) :
       ops[i].op = "toFile" =>
         /\ i = Len(ops)
         /\ \E a \in 1..(i - 1), m \in 1..(i - 1), c \in 1..(i - 1) :
              /\ ops[a].op = "access" /\ ops[m].op = "metadata"
              /\ ops[c].op = "composite"
              /\ a < m /\ m < c
         /\ metadata # NoMetadata
         /\ Composited
  /\ (\/ err \in {"InputNotFound", "UnreadableDimensions"}
      \/ (err = "CodecError" /\ ~Composited)) => ~HasOp("toFile")
  /\ written # NoPath => HasOp("toFile")

(* The run's strategy rejected after issuing codec calls; nothing was      *)
(* written.                                                                *)
C9_Witness ==
  /\ err = "CodecError"
  /\ ~Composited
  /\ HasOp("create")
  /\ pc \in {"thrown", "exited"}

(* The exit codes of a run in one state: at most one, 0 exactly when       *)
(* expandImage returned with the output saved, 1 after every error.        *)
ExitCodeConsistent ==
  /\ Len(exitCode) <= 1
  /\ mode = "direct" => exitCode = <<>>
  /\ mode = "cli" =>
       /\ pc = "exited" <=> Len(exitCode) = 1
       /\ exitCode = <<0>> <=>
            (pc = "exited" /\ err = "none" /\ written # NoPath)
       /\ exitCode = <<1>> <=> (pc = "exited" /\ err # "none")
       /\ exitCode = <<0>> =>
            /\ options.paddingColor \in {"black", "white"}
            /\ options.paddingStrategy \in {"solid", "blur", "edge-extend"}

(* How far a run is from its end: every step lowers it. *)
StepsLeft(p) ==
  CASE p = "cli" -> 8
    [] p = "access" -> 7
    [] p = "metadata" -> 6
    [] p = "geometry" -> 5
    [] p = "strategy" -> 4
    [] p = "save" -> 3
    [] p \in {"returned", "thrown"} -> 2
    [] p = "exited" -> 1

(* A CLI run that has not exited can take its next step. *)
CliCanStep ==
  mode = "cli" =>
    /\ pc = "cli" => ENABLED CliAction
    /\ pc = "access" => ENABLED Access
    /\ pc = "metadata" => ENABLED Metadata
    /\ pc = "geometry" => ENABLED Geometry
    /\ pc = "strategy" => Branch \in {"edge-extend", "blur", "solid"}
    /\ pc = "save" => ENABLED Save
    /\ pc = "returned" => ENABLED CliExit
    /\ pc = "thrown" => ENABLED CliCatch

(* C10: every CLI run terminates with exactly one exit code: 0 exactly     *)
(* when expandImage returned with the output saved, 1 after every reported *)
(* error (input missing, dimensions unreadable, color or strategy not      *)
(* legal, codec failure).  A run that has not exited can step, every step  *)
(* brings the run closer to its end, and an exit code, once set, stays.    *)
C10_ExitCode ==
  /\ [](ExitCodeConsistent /\ CliCanStep)
  /\ [][/\ StepsLeft(pc') < StepsLeft(pc)
        /\ exitCode # <<>> => exitCode' = exitCode]_vars

(* A CLI run exited 1 after the codec rejected a strategy call. *)
C10_Witness ==
  /\ mode = "cli"
  /\ exitCode = <<1>>
  /\ err = "CodecError"
  /\ HasOp("png")

---------------------------------------------------------------------------
(* The extract and resize calls of the run's strategy. *)
OpsNamed(name) == {ops[i] : i \in {j \in 1..Len(ops) : ops[j].op = name}}

(* C12: in the edge-extend strategy, when the padding width of a side is 0 *)
(* (newWidth - originalWidth is 0 or 1), no extract or resize with a zero  *)
(* width is issued and the expansion completes with the source composited  *)
(* on the canvas.                                                          *)
C12_ZeroPaddingSkipped ==
  (/\ Branch = "edge-extend"
   /\ GeometryComputed
   /\ PastStrategy
   /\ geom.newWidth - file.width \in {0, 1}) =>
    /\ \A o \in OpsNamed("extract") \cup OpsNamed("resize") : o.a # 0
    /\ Composited
    /\ \A y \in 1..file.height, x \in 1..file.width :
         expandedImage[y][x] = SrcPixel(x - 1, y - 1)

(* C13: in the blur strategy the edge-sample width of every extract is     *)
(* min(20, floor(originalWidth * 0.1)), no extract with zero width is      *)
(* issued, and a source narrower than 10 columns is still expanded (by the *)
(* fallback fill) whenever its padding width is positive.                  *)
C13_BlurSampleNeverEmpty ==
  (Branch = "blur" /\ GeometryComputed /\ PastStrategy) =>
    /\ \A o \in OpsNamed("extract") :
         /\ 10 * o.a <= file.width \/ o.a = 20
         /\ o.a <= 20
         /\ file.width < 10 * (o.a + 1) \/ o.a = 20
         /\ o.a # 0
    /\ (file.width < 10 /\ geom.paddingWidth >= 1) => Composited

---------------------------------------------------------------------------
(* The file a path names: the path in normal form. *)
SameFile(p, q) == PathNormalize(p) = PathNormalize(q)

(* Two directory paths name one directory: an entry of the one is the      *)
(* entry of that name of the other.                                        *)
SameDirectory(d, e) == SameFile(PathJoin(d, <<"a">>), PathJoin(e, <<"a">>))

(* C11: with no output path given, expandImage writes to and returns the   *)
(* path with the input's directory, the base <name>_expanded<ext> and the  *)
(* input's extension (<dir>/<name>_expanded<ext> as path.join forms it),   *)
(* which is never the input file; with an output path given, it writes to  *)
(* and returns exactly that path.                                          *)
C11_OutputPath ==
  pc = "returned" =>
    IF options.output = NoPath
    THEN LET in == PathParse(inputPath)
             out == PathParse(written)
         IN  /\ SameDirectory(out.dir, in.dir)
             /\ out.base = in.name \o <<"_expanded">> \o in.ext
             /\ out.ext = in.ext
             /\ (/\ in.dir \notin {<<>>, <<".">>, <<"/">>}
                 /\ in.dir = PathNormalize(in.dir)
                 /\ in.dir[Len(in.dir)] # "/") =>
                  written = in.dir \o <<"/">> \o out.base
             /\ written # inputPath
             /\ ~SameFile(written, inputPath)
    ELSE written = options.output

C11_Witness ==
  /\ pc = "returned"
  /\ options.output = NoPath
  /\ inputPath = SamplePath
  /\ written = <<"a", "/", "a", "_expanded", ".", "a">>

---------------------------------------------------------------------------
(* The first call added padding and the call on its output is under way. *)
SecondCallOnPadded ==
  /\ previous # NoPrevious
  /\ inputPath = previous.written
  /\ ImgWidth(previous.expandedImage) > previous.file.width

(* C14 as stated: whenever the first expansion added padding, expandImage  *)
(* applied again with the same ratio to the first output yields a strictly *)
(* wider image than the first output.                                      *)
C14_SecondCallWider ==
  (SecondCallOnPadded /\ pc = "returned") =>
    ImgWidth(expandedImage) > ImgWidth(previous.expandedImage)

(* C14, amended: whenever the first expansion added padding, expandImage   *)
(* applied again with the same ratio to the first output computes the      *)
(* first output's width and height as newWidth and newHeight, with no      *)
(* padding, and an output it produces has the first output's dimensions:   *)
(* the first output's size is a fixed point, never widened.                *)
C14_SecondCallSameSize ==
  (SecondCallOnPadded /\ GeometryComputed) =>
    /\ geom.newWidth = ImgWidth(previous.expandedImage)
    /\ geom.newHeight = ImgHeight(previous.expandedImage)
    /\ geom.paddingWidth = 0
    /\ Composited =>
         /\ ImgWidth(expandedImage) = ImgWidth(previous.expandedImage)
         /\ ImgHeight(expandedImage) = ImgHeight(previous.expandedImage)

C14_Witness ==
  /\ SecondCallOnPadded
  /\ pc = "returned"
  /\ ImgWidth(expandedImage) = ImgWidth(previous.expandedImage)
  /\ ImgWidth(expandedImage) > previous.file.width

---------------------------------------------------------------------------
(* The second of two calls that agree on the image, the paths and every    *)
(* option but sourceRatio, and got the same answers from the environment.  *)
SecondOfPair ==
  /\ previous # NoPrevious
  /\ file = previous.file
  /\ inputPath = previous.inputPath
  /\ options.sourceRatio # previous.options.sourceRatio
  /\ [options EXCEPT !.sourceRatio = NoRatio]
       = [previous.options EXCEPT !.sourceRatio = NoRatio]
  /\ Finished
  /\ env = previous.env

(* C15: two runs that agree on the input image, the output path and every  *)
(* option but sourceRatio end the same way: the same error or the same     *)
(* output pixels, dimensions and path (and the same codec calls and exit   *)
(* code); in particular a run is not rejected because the image's ratio    *)
(* differs from sourceRatio.                                               *)
C15_SourceRatioAdvisory ==
  SecondOfPair =>
    /\ err = previous.err
    /\ expandedImage = previous.expandedImage
    /\ written = previous.written
    /\ ops = previous.ops
    /\ exitCode = previous.exitCode

(* One run with sourceRatio equal to the image's ratio, one with another   *)
(* sourceRatio, both written.                                              *)
C15_Witness ==
  /\ SecondOfPair
  /\ written # NoPath
  /\ \E o \in {options, previous.options} :
       /\ o.sourceRatio # NoRatio
       /\ file.width * o.sourceRatio[2] = file.height * o.sourceRatio[1]
  /\ \E o \in {options, previous.options} :
       /\ o.sourceRatio # NoRatio
       /\ file.width * o.sourceRatio[2] # file.height * o.sourceRatio[1]

====
